---- MODULE Spec2Model ----
(***************************************************************************)
(* Tool-definition derivation of arcade/core/catalog.py: the ToolCatalog   *)
(* and the derivation of a ToolDefinition (and of the input/output models) *)
(* from a callable's signature.                                            *)
(*                                                                         *)
(* A callable is a record of the facts the code reads off it by            *)
(* reflection: __name__, __tool_name__, __tool_description__, whether its  *)
(* body returns a value, its return annotation and its parameters.  A      *)
(* native type expression is a record [kind, name, args, lits]:            *)
(*   kind "class"  a class (str, int, a BaseModel subclass, NoneType ...)  *)
(*   kind "alias"  an object with __origin__: list[int], Literal[...],      *)
(*                 typing.Union[...] (Optional[T] is Union[T, NoneType])   *)
(*   kind "other"  an annotation that is neither: X | Y (types.UnionType), *)
(*                 the object None; issubclass() rejects these             *)
(* Strings are Python strings; the string "None" stands for Python's None  *)
(* and is never used as a description or a name.                           *)
(***************************************************************************)
EXTENDS Naturals, Sequences, FiniteSets, TLC

VARIABLES tools, last, adds

vars == <<tools, last, adds>>

\* ---------------------------------------------------------------- bounds
\* the largest number of declared parameters of a callable
MaxParams == 2
\* the largest number of add_tool calls in one run of the catalog
MaxAdds == 2

\* ------------------------------------------------------- values and types
None == "None"

Cls(n) == [kind |-> "class", name |-> n, args |-> <<>>, lits |-> <<>>]
Alias(origin, args) == [kind |-> "alias", name |-> origin, args |-> args, lits |-> <<>>]
LiteralOf(lits) == [kind |-> "alias", name |-> "Literal", args |-> <<>>, lits |-> lits]
UnionOf(args) == [kind |-> "alias", name |-> "Union", args |-> args, lits |-> <<>>]
UnionType(args) == [kind |-> "other", name |-> "UnionType", args |-> args, lits |-> <<>>]
NoneObject == [kind |-> "other", name |-> "None", args |-> <<>>, lits |-> <<>>]

NoneType == Cls("NoneType")
OptionalOf(t) == UnionOf(<<t, NoneType>>)

StrLit(s) == [isstr |-> TRUE, v |-> s]
IntLit(s) == [isstr |-> FALSE, v |-> s]

\* results of an operation: a value, or the exception that left it
Ok(v) == [err |-> "none", val |-> v]
Err(e) == [err |-> e]
IsOk(r) == r.err = "none"

\* r, then F on its value: an exception raised in r leaves the caller at once
Then(r, F(_)) == IF IsOk(r) THEN F(r.val) ELSE r

\* every exception the derivation raises itself is a ToolDefinitionError; the
\* one other exception that can leave it is issubclass()'s TypeError
ErrClass(e) == IF e = "TypeError" THEN "TypeError" ELSE "ToolDefinitionError"

\* typing.get_origin(t) is Union and type(None) in get_args(t)
IsOptionalUnion(t) ==
    /\ t.kind = "alias"
    /\ t.name = "Union"
    /\ \E i \in 1..Len(t.args) : t.args[i] = NoneType

\* next(arg for arg in get_args(t) if arg is not type(None))
FirstNonNone(t) ==
    LET i == CHOOSE k \in 1..Len(t.args) :
                 /\ t.args[k] # NoneType
                 /\ \A j \in 1..(k - 1) : t.args[j] = NoneType
    IN t.args[i]

\* arcade.core.utils.is_string_literal
is_string_literal(t) ==
    /\ t.kind = "alias"
    /\ t.name = "Literal"
    /\ \A i \in 1..Len(t.lits) : t.lits[i].isstr

\* the exact-match table of get_wire_type
TypeMappingKeys == {"str", "bool", "int", "float", "dict", "list", "BaseModel"}

type_mapping(n) ==
    CASE n = "str" -> "string"
      [] n = "bool" -> "boolean"
      [] n = "int" -> "integer"
      [] n = "float" -> "float"
      [] n = "dict" -> "json"
      [] n = "list" -> "json"
      [] n = "BaseModel" -> "json"

\* the classes of the model that derive from BaseModel
BaseModelSubclasses == {"BaseModel", "Model"}

get_wire_type(t) ==
    IF t.kind = "class" /\ t.name \in TypeMappingKeys
    THEN Ok(type_mapping(t.name))
    ELSE IF t.kind = "alias"
    THEN IF t.name \in {"list", "dict"} THEN Ok("json") ELSE Err("unsupported_type")
    ELSE IF t.kind # "class"
    THEN Err("TypeError")
    ELSE IF t.name \in BaseModelSubclasses
    THEN Ok("json")
    ELSE Err("unsupported_type")

WireTypes == {"string", "integer", "float", "boolean", "json"}

\* ------------------------------------------------------------ input sets
ClassNames == {"str", "bool", "int", "float", "dict", "list", "BaseModel",
               "Model", "NoneType", "object"}

PlainTypes ==
    {Cls(n) : n \in ClassNames}
    \cup {Alias("list", <<Cls("str")>>), Alias("list", <<Alias("set", <<Cls("int")>>)>>),
          Alias("dict", <<Cls("str"), Cls("int")>>), Alias("list", <<>>),
          Alias("set", <<Cls("int")>>),
          LiteralOf(<<StrLit("a"), StrLit("b")>>), LiteralOf(<<StrLit("b"), StrLit("a")>>),
          LiteralOf(<<StrLit("c")>>),
          LiteralOf(<<IntLit("1"), IntLit("2")>>), LiteralOf(<<StrLit("a"), IntLit("1")>>),
          UnionOf(<<Cls("int"), Cls("str")>>),
          UnionType(<<Cls("int"), NoneType>>), NoneObject}

OptionalTypes ==
    {OptionalOf(t) : t \in {Cls("str"), Cls("int"), Cls("object"), Cls("Model"),
                            Alias("list", <<Cls("int")>>),
                            LiteralOf(<<StrLit("a"), StrLit("b")>>),
                            LiteralOf(<<IntLit("1"), IntLit("2")>>)}}
    \cup {UnionOf(<<NoneType, Cls("float")>>),
          UnionOf(<<Cls("int"), Cls("str"), NoneType>>)}

Types == PlainTypes \cup OptionalTypes

\* ------------------------------------------------- parameters, callables
\* an annotation: inspect.Parameter.empty, a bare type, or Annotated[type, *metadata]
EmptyAnnotation == [kind |-> "empty", type |-> NoneObject, metadata |-> <<>>]
Plain(t) == [kind |-> "plain", type |-> t, metadata |-> <<>>]
Annotated(t, md) == [kind |-> "Annotated", type |-> t, metadata |-> md]

\* the items of Annotated's __metadata__: a string, or an Inferrable(value) marker
S(s) == [kind |-> "str", s |-> s, value |-> TRUE]
Inferrable(b) == [kind |-> "Inferrable", s |-> "", value |-> b]

\* a parameter's default: inspect.Parameter.empty, a plain value, or a pydantic
\* Field(default, default_factory, description); factory is "absent", a callable
\* ("returns_v", "returns_None", or "stateful": one whose value changes from call
\* to call) or an object that is not callable
NoDefault == [kind |-> "empty", value |-> None, factory |-> "absent", description |-> None]
Value(v) == [kind |-> "value", value |-> v, factory |-> "absent", description |-> None]
Field(v, fac, d) == [kind |-> "Field", value |-> v, factory |-> fac, description |-> d]
PydanticUndefined == "PydanticUndefined"

Param(n, a, d) == [name |-> n, annotation |-> a, default |-> d]

\* ParamInfo (lines 266-277)
ParamInfo(n, d, ot, ft, desc, opt) ==
    [name |-> n, default |-> d, original_type |-> ot, field_type |-> ft,
     description |-> desc, is_optional |-> opt]

\* ToolParamInfo.from_param_info
from_param_info(pi, wire_type, is_inferrable) ==
    [name |-> pi.name, default |-> pi.default, original_type |-> pi.original_type,
     field_type |-> pi.field_type, description |-> pi.description,
     is_optional |-> pi.is_optional, wire_type |-> wire_type,
     is_inferrable |-> is_inferrable]

extract_regular_param_info(param) ==
    LET original_type == param.annotation.type
        is_optional == IsOptionalUnion(original_type)
        field_type == IF is_optional THEN FirstNonNone(original_type) ELSE original_type
    IN Ok(ParamInfo(param.name,
                    IF param.default.kind # "empty" THEN param.default.value ELSE None,
                    original_type, field_type, None, is_optional))

extract_pydantic_param_info(param) ==
    LET fi == param.default
        default0 == IF fi.value = PydanticUndefined THEN None ELSE fi.value
        original_type == param.annotation.type
        is_optional == IsOptionalUnion(original_type)
        field_type == IF is_optional THEN FirstNonNone(original_type) ELSE original_type
    IN IF fi.factory = "not_callable"
       THEN Err("default_factory_not_callable")
       ELSE LET default_value ==
                    CASE fi.factory = "absent" -> default0
                      [] fi.factory = "returns_v" -> "v"
                      [] fi.factory = "returns_None" -> None
            IN Ok(ParamInfo(param.name, default_value, original_type, field_type,
                            fi.description, is_optional))

\* [m for m in metadata if isinstance(m, str)]
str_annotations(annotation) ==
    SelectSeq(annotation.metadata, LAMBDA m : m.kind = "str")

\* lines 328-339: the string metadata override the description (and the name)
apply_str_annotations_NoLimit(pi, strs) ==
    IF Len(strs) = 0 THEN Ok(pi)
    ELSE IF Len(strs) = 1 THEN Ok([pi EXCEPT !.description = strs[1].s])
    ELSE Ok([pi EXCEPT !.name = strs[1].s, !.description = strs[2].s])

apply_str_annotations(pi, strs) ==
    IF Len(strs) = 0 THEN Ok(pi)
    ELSE IF Len(strs) = 1 THEN Ok([pi EXCEPT !.description = strs[1].s])
    ELSE IF Len(strs) = 2
    THEN Ok([pi EXCEPT !.name = strs[1].s, !.description = strs[2].s])
    ELSE Err("too_many_annotations")

\* first_or_none(Inferrable, get_args(annotation)), then lines 344-345
is_inferrable_of(annotation) ==
    LET marks == SelectSeq(annotation.metadata, LAMBDA m : m.kind = "Inferrable")
    IN IF Len(marks) > 0 THEN marks[1].value ELSE TRUE

\* lines 347-352: the wire type of the field type
wire_type_of(pi) ==
    IF is_string_literal(pi.field_type) THEN get_wire_type(Cls("str"))
    ELSE get_wire_type(pi.field_type)

\* lines 354-361: the final checks on the description and on the wire type
final_checks(pi, wire_type, is_inferrable) ==
    IF pi.description = None THEN Err("missing_description")
    ELSE IF wire_type = None THEN Err("unknown_parameter_type")
    ELSE Ok(from_param_info(pi, wire_type, is_inferrable))

\* lines 319-323
param_info_of(param) ==
    IF param.default.kind = "Field" THEN extract_pydantic_param_info(param)
    ELSE extract_regular_param_info(param)

extract_field_info(param) ==
    IF param.annotation.kind = "empty" THEN Err("no_type_annotation")
    ELSE Then(param_info_of(param), LAMBDA pi0 :
         Then(apply_str_annotations(pi0, str_annotations(param.annotation)), LAMBDA pi1 :
         Then(wire_type_of(pi1), LAMBDA wire_type :
         final_checks(pi1, wire_type, is_inferrable_of(param.annotation)))))

\* ------------------------------------------------------------ callables
\* names are sequences of characters
Upper(c) == CASE c = "a" -> "A" [] c = "b" -> "B" [] OTHER -> c

RECURSIVE PascalWords(_, _)
PascalWords(s, start) ==
    IF s = <<>> THEN <<>>
    ELSE IF Head(s) = "_" THEN PascalWords(Tail(s), TRUE)
    ELSE <<IF start THEN Upper(Head(s)) ELSE Head(s)>> \o PascalWords(Tail(s), FALSE)

\* arcade.core.utils.snake_to_pascal_case
snake_to_pascal_case(name) == PascalWords(name, TRUE)

\* a callable: __name__, __tool_name__ (when set), __tool_description__,
\* does_function_return_value(tool), the return annotation, the parameters,
\* __tool_requires_auth__
Func(n, has_tn, tn, d, rv, ret, ps, auth) ==
    [name |-> n, has_tool_name |-> has_tn, tool_name |-> tn, description |-> d,
     returns_value |-> rv, ret |-> ret, params |-> ps, requires_auth |-> auth]

\* line 391, default_factory(): a factory is code of the tool's author and may
\* keep state, so what a "stateful" factory returns is decided at each call of it
FactoryReturns == {"returns_v", "returns_None"}

HasStatefulFactory(param) ==
    param.default.kind = "Field" /\ param.default.factory = "stateful"

\* the parameter as one derivation sees it: its stateful factory returns ret
Invoked(param, ret) ==
    IF HasStatefulFactory(param) THEN [param EXCEPT !.default.factory = ret] ELSE param

\* what the factories of the parameters can return during one pass over them
FactoryCalls(params) ==
    {o \in [DOMAIN params -> FactoryReturns] :
        \A i \in DOMAIN params : HasStatefulFactory(params[i]) \/ o[i] = "returns_v"}

\* the callable as one pass over its parameters sees it
AtCall(func, o) ==
    [func EXCEPT !.params = [i \in DOMAIN func.params |-> Invoked(func.params[i], o[i])]]

\* ------------------------------------------------- create_input_definition
NoEnum == [present |-> FALSE, values |-> <<>>]
Enum(vs) == [present |-> TRUE, values |-> vs]
ValueSchema(vt, e) == [present |-> TRUE, val_type |-> vt, enum |-> e]
NoValueSchema == [present |-> FALSE, val_type |-> None, enum |-> NoEnum]

\* lines 199-205 and 220: [str(e) for e in get_args(field_type)]
enum_of_Reversed(info) ==
    IF is_string_literal(info.field_type)
    THEN Enum([i \in 1..Len(info.field_type.lits) |->
                  info.field_type.lits[Len(info.field_type.lits) + 1 - i].v])
    ELSE NoEnum

enum_of(info) ==
    IF is_string_literal(info.field_type)
    THEN Enum([i \in 1..Len(info.field_type.lits) |-> info.field_type.lits[i].v])
    ELSE NoEnum

\* lines 207-210
is_required(info) ==
    LET has_default_value == info.default # None
    IN ~info.is_optional /\ ~has_default_value

\* lines 212-223
InputParameter(info) ==
    [name |-> info.name, description |-> info.description,
     required |-> is_required(info), inferrable |-> info.is_inferrable,
     value_schema |-> ValueSchema(info.wire_type, enum_of(info))]

\* the loop of lines 195-223 from parameter i on; an exception ends it
RECURSIVE input_parameters_from(_, _, _)
input_parameters_from(params, i, acc) ==
    IF i > Len(params) THEN Ok(acc)
    ELSE Then(extract_field_info(params[i]), LAMBDA info :
         input_parameters_from(params, i + 1, Append(acc, InputParameter(info))))

create_input_definition_DropLast(func) ==
    Then(input_parameters_from(func.params, 1, <<>>), LAMBDA ps :
    Ok([parameters |-> SubSeq(ps, 1, Len(ps) - 1)]))

create_input_definition(func) ==
    Then(input_parameters_from(func.params, 1, <<>>), LAMBDA ps :
    Ok([parameters |-> ps]))

\* ------------------------------------------------ create_output_definition
NoDescription == "No description provided."

\* lines 254-257
available_modes_NeverNull(is_optional) == <<"value", "error">>

available_modes(is_optional) ==
    IF is_optional THEN <<"value", "error", "null">> ELSE <<"value", "error">>

ToolOutput(d, modes, vs) == [description |-> d, available_modes |-> modes, value_schema |-> vs]

\* lines 242-250: the description, the unwrapped return type, is_optional
output_description(ret) ==
    IF ret.kind = "Annotated" THEN ret.metadata[1].s ELSE NoDescription

unwrapped_return_type(ret) ==
    IF IsOptionalUnion(ret.type) THEN FirstNonNone(ret.type) ELSE ret.type

create_output_definition(func) ==
    IF func.ret.kind = "empty"
    THEN Ok(ToolOutput(NoDescription, <<"null">>, NoValueSchema))
    ELSE Then(get_wire_type(unwrapped_return_type(func.ret)), LAMBDA wire_type :
         Ok(ToolOutput(output_description(func.ret),
                       available_modes(IsOptionalUnion(func.ret.type)),
                       ValueSchema(wire_type, NoEnum))))

\* -------------------------------------------------------- the two models
\* a pydantic model made by create_model: its name and its fields in order
ModelField(n, t, dflt, d) == [name |-> n, type |-> t, default |-> dflt, description |-> d]
Model(base, suffix, fields) == [name |-> [base |-> base, suffix |-> suffix], fields |-> fields]

determine_output_model(func) ==
    LET name == snake_to_pascal_case(func.name)
        ret == func.ret
    IN IF ret.kind = "empty" THEN Model(name, "Output", <<>>)
       ELSE IF ret.kind = "Annotated" /\ ret.metadata[1].s # ""
       THEN Model(name, "Output",
                  <<ModelField("result", Plain(ret.type), PydanticUndefined, ret.metadata[1].s)>>)
       ELSE Model(name, "Output",
                  <<ModelField("result", ret, PydanticUndefined, NoDescription)>>)

\* lines 460-465: the field of one parameter
input_field(param, info) ==
    ModelField(param.name, Plain(info.field_type), info.default, info.description)

\* the loop of lines 457-465 from parameter i on
RECURSIVE input_fields_from(_, _, _)
input_fields_from(params, i, acc) ==
    IF i > Len(params) THEN Ok(acc)
    ELSE Then(extract_field_info(params[i]), LAMBDA info :
         input_fields_from(params, i + 1, Append(acc, input_field(params[i], info))))

create_func_models(func) ==
    Then(input_fields_from(func.params, 1, <<>>), LAMBDA fields :
    Ok([input_model |-> Model(snake_to_pascal_case(func.name), "Input", fields),
        output_model |-> determine_output_model(func)]))

\* ------------------------------------------------- create_tool_definition
\* tool.__annotations__.get("return") is None
ReturnAnnotationIsNone(func) ==
    \/ func.ret.kind = "empty"
    \/ func.ret.kind = "plain" /\ func.ret.type = NoneObject

ToolDefinition(n, d, v, inputs, output, auth) ==
    [name |-> n, description |-> d, version |-> v, inputs |-> inputs, output |-> output,
     requirements |-> [authorization |-> auth]]

\* line 168
tool_name_of_DeclaredOnly(tool) == tool.name

tool_name_of(tool) == IF tool.has_tool_name THEN tool.tool_name ELSE tool.name

create_tool_definition(tool, version) ==
    IF tool.description \in {None, ""} THEN Err("tool_missing_description")
    ELSE IF tool.returns_value /\ ReturnAnnotationIsNone(tool)
    THEN Err("missing_return_annotation")
    ELSE Then(create_input_definition(tool), LAMBDA inputs :
         Then(create_output_definition(tool), LAMBDA output :
         Ok(ToolDefinition(snake_to_pascal_case(tool_name_of(tool)), tool.description,
                           version, inputs, output, tool.requires_auth))))

\* ------------------------------------------------------------ the catalog
\* what add_tool is given besides the callable: a module and a toolkit, or neither
NoToolkit == [present |-> FALSE, name |-> None, version |-> None, package_name |-> None,
              module |-> None, file |-> None]
SomeToolkit == [present |-> TRUE, name |-> "kit", version |-> "1.0", package_name |-> "pkg",
                module |-> "kit.tools", file |-> "tools.py"]

ToolMeta(tool_func, tk) ==
    [module |-> IF tk.present THEN tk.module ELSE "__main__",
     toolkit |-> tk.name, package |-> tk.package_name, path |-> tk.file]

MaterializedTool(tool_func, definition, tk, models) ==
    [tool |-> tool_func, definition |-> definition, meta |-> ToolMeta(tool_func, tk),
     input_model |-> models.input_model, output_model |-> models.output_model]

\* toolkit.version if toolkit else "latest"
version_of(tk) == IF tk.present THEN tk.version ELSE "latest"

\* lines 99-115: the value add_tool stores, or the exception that leaves it; the
\* two passes over the parameters each call the default factories
add_tool_result(tool_func, o1, o2, tk) ==
    Then(create_func_models(AtCall(tool_func, o1)), LAMBDA models :
    Then(create_tool_definition(AtCall(tool_func, o2), version_of(tk)), LAMBDA definition :
    Ok(MaterializedTool(tool_func, definition, tk, models))))

\* self.tools[name] = mt
Store_KeepsEarlier(d, name, mt) ==
    [n \in (DOMAIN d) \cup {name} |-> IF n \in DOMAIN d THEN d[n] ELSE mt]

Store(d, name, mt) == [n \in (DOMAIN d) \cup {name} |-> IF n = name THEN mt ELSE d[n]]

\* __getitem__: the entry stored under name, or KeyError
getitem(d, name) == IF name \in DOMAIN d THEN Ok(d[name]) ELSE Err("KeyError")

\* __contains__
contains(d, name) == name \in DOMAIN d

\* __len__
len(d) == Cardinality(DOMAIN d)

\* get_tool: the callable of the first entry, in the order of the dict, whose
\* definition has that name, or ValueError; the mapping keeps no order, so each
\* entry of that name is one that can come first
get_tool(d, name) ==
    IF \E k \in DOMAIN d : d[k].definition.name = name
    THEN {Ok(d[k].tool) : k \in {j \in DOMAIN d : d[j].definition.name = name}}
    ELSE {Err("ValueError")}

\* ----------------------------------------------- input sets: parameters
ParamNames == <<"x", "y", "z", "w">>

Metadatas ==
    {<<S("d1")>>, <<S("n1"), S("d1")>>, <<S("d1"), S("d2"), S("d3")>>,
     <<S("d1"), S("d2"), S("d3"), S("d4")>>,
     <<Inferrable(FALSE)>>, <<S("d1"), Inferrable(FALSE)>>,
     <<Inferrable(TRUE), S("n1"), S("d1")>>}

Annotations ==
    {EmptyAnnotation}
    \cup {Plain(t) : t \in Types}
    \cup {Annotated(t, md) : t \in Types, md \in Metadatas}

Defaults ==
    {NoDefault, Value(None), Value("v"),
     Field(PydanticUndefined, "absent", None), Field(PydanticUndefined, "absent", "fd"),
     Field(None, "absent", "fd"), Field("v", "absent", "fd"), Field("v", "absent", None),
     Field(PydanticUndefined, "returns_v", "fd"),
     Field(PydanticUndefined, "returns_None", "fd"),
     Field(PydanticUndefined, "stateful", "fd"),
     Field(PydanticUndefined, "not_callable", "fd"),
     Field(PydanticUndefined, "not_callable", None)}

Shape(a, d) == [annotation |-> a, default |-> d]

ParamShapes == {Shape(a, d) : a \in Annotations, d \in Defaults}

\* the parameters of the callables with several parameters
CoreShapes ==
    {Shape(Annotated(Cls("str"), <<S("d1")>>), NoDefault),
     Shape(Annotated(OptionalOf(Cls("int")), <<S("n1"), S("d1")>>), Value(None)),
     Shape(Annotated(LiteralOf(<<StrLit("a"), StrLit("b")>>),
                     <<S("d2"), Inferrable(FALSE)>>), Value("v")),
     Shape(Plain(Alias("list", <<Cls("str")>>)),
           Field(PydanticUndefined, "returns_v", "fd")),
     Shape(Plain(Alias("set", <<Cls("int")>>)), NoDefault),
     Shape(Plain(Cls("int")), NoDefault),
     Shape(EmptyAnnotation, NoDefault),
     Shape(Annotated(Cls("str"), <<S("d1"), S("d2"), S("d3")>>), NoDefault)}

\* the parameter lists of n parameters, named by position
ParamLists(shapes, n) ==
    {[i \in 1..n |-> Param(ParamNames[i], sh[i].annotation, sh[i].default)] :
        sh \in [1..n -> shapes]}

Params == {Param("x", sh.annotation, sh.default) : sh \in ParamShapes}

CoreParamLists == UNION {ParamLists(CoreShapes, n) : n \in 0..MaxParams}

AllParamLists == {<<p>> : p \in Params} \cup CoreParamLists

\* the parameters of the callables whose tool-level attributes vary
ToolShapes ==
    {Shape(Annotated(Cls("str"), <<S("d1")>>), NoDefault),
     Shape(Annotated(OptionalOf(Cls("int")), <<S("n1"), S("d1")>>), Value(None)),
     Shape(Plain(Alias("set", <<Cls("int")>>)), NoDefault),
     Shape(Annotated(Cls("str"), <<S("d1"), S("d2"), S("d3")>>), NoDefault)}

ToolParamLists == UNION {ParamLists(ToolShapes, n) : n \in 0..MaxParams}

\* ------------------------------------------------ input sets: callables
DeclaredNames == {<<"a", "_", "b">>, <<"a", "b">>}
OverrideNames == {<<"a", "_", "b">>, <<"A", "b">>}
Descriptions == {None, "", "desc"}
Versions == {"latest", "1.0"}

RetMetadatas == {<<S("r1")>>, <<S("r1"), S("r2")>>, <<S("")>>}

RetAnnotations ==
    {EmptyAnnotation}
    \cup {Plain(t) : t \in Types}
    \cup {Annotated(t, md) : t \in Types, md \in RetMetadatas}

CoreRets ==
    {EmptyAnnotation, Plain(Cls("str")), Plain(NoneObject),
     Annotated(OptionalOf(Cls("str")), <<S("r1")>>), Plain(Alias("set", <<Cls("int")>>))}

\* a described tool, declared a_b, that returns nothing and is annotated -> str
PlainFunc(ret, ps) == Func(<<"a", "_", "b">>, FALSE, <<>>, "desc", FALSE, ret, ps, None)

InputFuncs == {PlainFunc(Plain(Cls("str")), ps) : ps \in AllParamLists}

OutputFuncs == {PlainFunc(ret, <<>>) : ret \in RetAnnotations}

ToolFuncs ==
    {Func(n, FALSE, <<>>, d, rv, ret, ps, None) :
        n \in DeclaredNames, d \in Descriptions, rv \in BOOLEAN, ret \in CoreRets,
        ps \in ToolParamLists}
    \cup {Func(n, TRUE, tn, d, rv, ret, ps, "auth") :
        n \in DeclaredNames, tn \in OverrideNames, d \in Descriptions, rv \in BOOLEAN,
        ret \in CoreRets,
        ps \in ToolParamLists}

\* ------------------------------------------------------------- the state
\* tools: ToolCatalog.tools, a mapping from names to materialized tools
\* last:  the call in progress or the last call made, with what it returned
\* adds:  the number of add_tool calls made
NoCall == [op |-> "none", fn |-> "none"]
Call(fn, arg) == [op |-> "call", fn |-> fn, arg |-> arg]
CallWith(fn, arg, with) == [op |-> "call", fn |-> fn, arg |-> arg, with |-> with]
Return(fn, arg, res) == [op |-> "return", fn |-> fn, arg |-> arg, res |-> res]
ReturnWith(fn, arg, with, res) ==
    [op |-> "return", fn |-> fn, arg |-> arg, with |-> with, res |-> res]

Returned(fn) == last.op = "return" /\ last.fn = fn
Calling(fn) == last.op = "call" /\ last.fn = fn

GetWireType(t) ==
    /\ last' = Return("get_wire_type", t, get_wire_type(t))
    /\ UNCHANGED <<tools, adds>>

ExtractFieldInfo(param) ==
    /\ \E ret \in FactoryReturns :
           last' = Return("extract_field_info", param, extract_field_info(Invoked(param, ret)))
    /\ UNCHANGED <<tools, adds>>

CreateInputDefinition(func) ==
    /\ \E o \in FactoryCalls(func.params) :
           last' = Return("create_input_definition", func,
                          create_input_definition(AtCall(func, o)))
    /\ UNCHANGED <<tools, adds>>

CreateOutputDefinition(func) ==
    /\ last' = Return("create_output_definition", func, create_output_definition(func))
    /\ UNCHANGED <<tools, adds>>

CreateFuncModels(func) ==
    /\ \E o \in FactoryCalls(func.params) :
           last' = Return("create_func_models", func, create_func_models(AtCall(func, o)))
    /\ UNCHANGED <<tools, adds>>

CreateToolDefinition(tool, version) ==
    /\ \E o \in FactoryCalls(tool.params) :
           last' = ReturnWith("create_tool_definition", tool, version,
                              create_tool_definition(AtCall(tool, o), version))
    /\ UNCHANGED <<tools, adds>>

\* lines 104-115 on the outcome r of lines 99-102: the entry is stored under its
\* name unless an exception left add_tool, which returns None
AddToolOutcome_ResetOnError(tool_func, tk, r) ==
    /\ tools' = IF IsOk(r) THEN Store(tools, r.val.definition.name, r.val) ELSE <<>>
    /\ last' = ReturnWith("add_tool", tool_func, tk, IF IsOk(r) THEN Ok(None) ELSE r)

AddToolOutcome(tool_func, tk, r) ==
    /\ tools' = IF IsOk(r) THEN Store(tools, r.val.definition.name, r.val) ELSE tools
    /\ last' = ReturnWith("add_tool", tool_func, tk, IF IsOk(r) THEN Ok(None) ELSE r)

AddTool(tool_func, tk) ==
    /\ adds < MaxAdds
    /\ adds' = adds + 1
    /\ \E o1, o2 \in FactoryCalls(tool_func.params) :
           AddToolOutcome(tool_func, tk, add_tool_result(tool_func, o1, o2, tk))

GetItem(name) ==
    /\ last' = Return("__getitem__", name, getitem(tools, name))
    /\ UNCHANGED <<tools, adds>>

Contains(name) ==
    /\ last' = Return("__contains__", name, Ok(contains(tools, name)))
    /\ UNCHANGED <<tools, adds>>

CatalogLen ==
    /\ last' = Return("__len__", None, Ok(len(tools)))
    /\ UNCHANGED <<tools, adds>>

GetTool(name) ==
    /\ \E res \in get_tool(tools, name) : last' = Return("get_tool", name, res)
    /\ UNCHANGED <<tools, adds>>

\* ------------------------------------------- the derivation, one call a run
InitDerive ==
    /\ tools = <<>>
    /\ adds = 0
    /\ \/ \E t \in Types : last = Call("get_wire_type", t)
       \/ \E p \in Params : last = Call("extract_field_info", p)
       \/ \E f \in InputFuncs : last = Call("create_input_definition", f)
       \/ \E f \in OutputFuncs : last = Call("create_output_definition", f)
       \/ \E f \in InputFuncs \cup OutputFuncs : last = Call("create_func_models", f)
       \/ \E f \in ToolFuncs, v \in Versions :
              last = CallWith("create_tool_definition", f, v)
       \/ \E f \in ToolFuncs \cup InputFuncs \cup OutputFuncs, tk \in {NoToolkit, SomeToolkit} :
              last = CallWith("add_tool", f, tk)

NextDerive ==
    \/ Calling("get_wire_type") /\ GetWireType(last.arg)
    \/ Calling("extract_field_info") /\ ExtractFieldInfo(last.arg)
    \/ Calling("create_input_definition") /\ CreateInputDefinition(last.arg)
    \/ Calling("create_output_definition") /\ CreateOutputDefinition(last.arg)
    \/ Calling("create_func_models") /\ CreateFuncModels(last.arg)
    \/ Calling("create_tool_definition") /\ CreateToolDefinition(last.arg, last.with)
    \/ Calling("add_tool") /\ AddTool(last.arg, last.with)

SpecDerive == InitDerive /\ [][NextDerive]_vars

\* ------------------------------------------------- the catalog over time
CatalogParamLists ==
    {<<>>,
     <<Param("x", Annotated(OptionalOf(Cls("int")), <<S("n1"), S("d1")>>), Value(None))>>,
     <<Param("x", EmptyAnnotation, NoDefault)>>}

CatalogFuncs ==
    {Func(<<"a", "_", "b">>, FALSE, <<>>, "desc", rv, EmptyAnnotation, ps, None) :
        rv \in BOOLEAN, ps \in CatalogParamLists}
    \cup {Func(<<"a", "_", "b">>, FALSE, <<>>, None, FALSE, EmptyAnnotation, ps, None) :
        ps \in CatalogParamLists}
    \cup {Func(<<"a", "_", "b">>, FALSE, <<>>, "desc", TRUE, Plain(Cls("str")), ps, None) :
        ps \in CatalogParamLists}
    \cup {Func(<<"a", "b">>, FALSE, <<>>, "desc", FALSE, EmptyAnnotation,
               <<Param("x", Annotated(Cls("str"), <<S("d1")>>), NoDefault)>>, None),
          Func(<<"a", "b">>, FALSE, <<>>, "", FALSE, EmptyAnnotation,
               <<Param("x", Plain(Alias("set", <<Cls("int")>>)), NoDefault)>>, None),
          Func(<<"b">>, TRUE, <<"a", "_", "b">>, "desc", TRUE,
               Annotated(OptionalOf(Cls("str")), <<S("r1")>>), <<>>, "auth"),
          Func(<<"b">>, FALSE, <<>>, "desc", TRUE, Plain(Alias("set", <<Cls("int")>>)),
               <<>>, None),
          Func(<<"b">>, FALSE, <<>>, "desc", FALSE, EmptyAnnotation,
               <<Param("x", Plain(Cls("int")), Field(PydanticUndefined, "returns_v", "fd"))>>,
               None),
          Func(<<"b">>, FALSE, <<>>, "desc", FALSE, EmptyAnnotation,
               <<Param("x", Plain(Cls("int")), Field(PydanticUndefined, "stateful", "fd"))>>,
               None)}

Init ==
    /\ tools = <<>>
    /\ adds = 0
    /\ last = NoCall

\* the names looked up: the derived names of CatalogFuncs and two that are not
LookupNames == {<<"A", "B">>, <<"A", "b">>, <<"B">>, <<"a", "_", "b">>, <<"b">>}

Next ==
    \/ \E f \in CatalogFuncs, tk \in {NoToolkit, SomeToolkit} : AddTool(f, tk)
    \/ \E f \in CatalogFuncs, v \in Versions : CreateToolDefinition(f, v)
    \/ \E name \in LookupNames : GetItem(name)
    \/ \E name \in LookupNames : Contains(name)
    \/ \E name \in LookupNames : GetTool(name)
    \/ CatalogLen

Spec == Init /\ [][Next]_vars

\* ============================================================ properties
\* what a parameter declares, read off its declaration
DeclaresDefault(param) ==
    \/ param.default.kind = "value"
    \/ /\ param.default.kind = "Field"
       /\ (param.default.value # PydanticUndefined \/ param.default.factory # "absent")

DeclaresOptionalType(param) == IsOptionalUnion(param.annotation.type)

DeclaredFieldType(param) ==
    IF DeclaresOptionalType(param) THEN FirstNonNone(param.annotation.type)
    ELSE param.annotation.type

StrCount(param) == Len(str_annotations(param.annotation))

DeclaresNoDescription(param) ==
    /\ StrCount(param) = 0
    /\ (param.default.kind = "Field" => param.default.description = None)

DerivedInputs == last.res.val.parameters

\* C1: every derived InputParameter is required exactly when its parameter
\* declares neither a default value (a plain one, None included, or one given
\* through a Field) nor an optional type.
C1_RequiredIffNoDefaultAndNotOptional ==
    (Returned("create_input_definition") /\ IsOk(last.res)) =>
        \A i \in 1..Len(last.arg.params) :
            DerivedInputs[i].required <=>
                (~DeclaresDefault(last.arg.params[i])
                 /\ ~DeclaresOptionalType(last.arg.params[i]))

\* C2: the derived enum is present exactly when the optional-unwrapped field type
\* is a closed set of string literals; then val_type is "string" and the enum is
\* the literals in their declaration order.
C2_EnumIffStringLiteral ==
    (Returned("create_input_definition") /\ IsOk(last.res)) =>
        \A i \in 1..Len(last.arg.params) :
            LET ft == DeclaredFieldType(last.arg.params[i])
                vs == DerivedInputs[i].value_schema
            IN IF is_string_literal(ft)
               THEN /\ vs.enum.present
                    /\ vs.val_type = "string"
                    /\ Len(vs.enum.values) = Len(ft.lits)
                    /\ \A k \in 1..Len(ft.lits) : vs.enum.values[k] = ft.lits[k].v
               ELSE ~vs.enum.present

C2_Witness ==
    /\ Returned("create_input_definition")
    /\ IsOk(last.res)
    /\ Len(last.arg.params) = 1
    /\ DeclaresOptionalType(last.arg.params[1])
    /\ DerivedInputs[1].value_schema.enum = Enum(<<"a", "b">>)

\* C3: a ToolOutput has available_modes [value, error] for a declared non-optional
\* return type, [value, error, null] for a declared optional one, and [null] with
\* no value_schema when there is no return annotation; the value_schema is absent
\* only then.
C3_AvailableModes ==
    (Returned("create_output_definition") /\ IsOk(last.res)) =>
        LET ret == last.arg.ret
            out == last.res.val
        IN IF ret.kind = "empty"
           THEN out.available_modes = <<"null">> /\ ~out.value_schema.present
           ELSE /\ out.value_schema.present
                /\ out.available_modes =
                       IF IsOptionalUnion(ret.type) THEN <<"value", "error", "null">>
                       ELSE <<"value", "error">>

C3_Witness ==
    /\ Returned("create_output_definition")
    /\ IsOk(last.res)
    /\ last.arg.ret.kind = "Annotated"
    /\ IsOptionalUnion(last.arg.ret.type)
    /\ last.res.val.available_modes = <<"value", "error", "null">>

\* C4: an annotated parameter with no description makes extract_field_info fail,
\* and never with the unsupported-type error in place of the missing-description
\* error.
C4_DescriptionCheckNotPreempted ==
    (/\ Returned("extract_field_info")
     /\ last.arg.annotation.kind # "empty"
     /\ DeclaresNoDescription(last.arg)) =>
        (~IsOk(last.res) /\ last.res.err # "unsupported_type")

\* C5 as stated: the number n of string metadata items decides the outcome; n = 0
\* keeps the extracted name and description, n = 1 sets the description, n = 2
\* sets the name and the description, n >= 3 fails with the too-many-annotations
\* error.
C5_Original ==
    Returned("extract_field_info") =>
        LET param == last.arg
            strs == str_annotations(param.annotation)
        IN /\ Len(strs) >= 3 => last.res.err = "too_many_annotations"
           /\ (IsOk(last.res) /\ Len(strs) = 2) =>
                  last.res.val.name = strs[1].s /\ last.res.val.description = strs[2].s
           /\ (IsOk(last.res) /\ Len(strs) = 1) =>
                  last.res.val.name = param.name /\ last.res.val.description = strs[1].s
           /\ (IsOk(last.res) /\ Len(strs) = 0) =>
                  /\ last.res.val.name = param.name
                  /\ last.res.val.description = param.default.description

\* C5 amended: as stated, except that with n >= 3 a Field default-factory that
\* is not callable fails first, with the invalid-default-factory error; either
\* way no ToolDefinition is produced.
C5_StringMetadataCount ==
    /\ Returned("extract_field_info") =>
        LET param == last.arg
            strs == str_annotations(param.annotation)
        IN /\ Len(strs) >= 3 =>
                  last.res.err =
                      IF param.default.kind = "Field" /\ param.default.factory = "not_callable"
                      THEN "default_factory_not_callable"
                      ELSE "too_many_annotations"
           /\ (IsOk(last.res) /\ Len(strs) = 2) =>
                  last.res.val.name = strs[1].s /\ last.res.val.description = strs[2].s
           /\ (IsOk(last.res) /\ Len(strs) = 1) =>
                  last.res.val.name = param.name /\ last.res.val.description = strs[1].s
           /\ (IsOk(last.res) /\ Len(strs) = 0) =>
                  /\ last.res.val.name = param.name
                  /\ last.res.val.description = param.default.description
    /\ (/\ Returned("create_tool_definition")
        /\ \E i \in 1..Len(last.arg.params) : StrCount(last.arg.params[i]) >= 3) =>
           ~IsOk(last.res)

C5_Witness ==
    /\ Returned("extract_field_info")
    /\ StrCount(last.arg) = 2
    /\ IsOk(last.res)
    /\ last.res.val.name = "n1"
    /\ last.res.val.description = "d1"

\* C6: through create_tool_definition and through add_tool, a callable with no
\* (or an empty) description fails with the tool missing-description error, and a
\* described value-returning callable with no return annotation fails with the
\* missing-return-annotation error, whatever its parameters are.
C6_ToolChecksFirst ==
    (Returned("create_tool_definition") \/ Returned("add_tool")) =>
        LET f == last.arg
        IN /\ f.description \in {None, ""} => last.res.err = "tool_missing_description"
           /\ (f.description \notin {None, ""} /\ f.returns_value /\ f.ret.kind = "empty") =>
                  last.res.err = "missing_return_annotation"

\* C7: get_wire_type returns one of the five wire types, by the table, the
\* list/dict origin or the BaseModel subclass rule, and fails with the
\* unsupported-type error on every other type.
C7_WireTypeOrUnsupported ==
    Returned("get_wire_type") =>
        LET t == last.arg
        IN IF t.kind = "class" /\ t.name \in TypeMappingKeys
           THEN last.res = Ok(type_mapping(t.name))
           ELSE IF \/ t.kind = "alias" /\ t.name \in {"list", "dict"}
                   \/ t.kind = "class" /\ t.name \in BaseModelSubclasses
           THEN last.res = Ok("json")
           ELSE last.res.err = "unsupported_type"

\* C8: create_input_definition gives one InputParameter per declared parameter,
\* the i-th derived from the i-th declared parameter.
C8_OnePerParameterInOrder ==
    (Returned("create_input_definition") /\ IsOk(last.res)) =>
        /\ Len(DerivedInputs) = Len(last.arg.params)
        /\ \A i \in 1..Len(last.arg.params) :
               LET param == last.arg.params[i]
                   strs == str_annotations(param.annotation)
               IN /\ DerivedInputs[i].name = IF Len(strs) = 2 THEN strs[1].s ELSE param.name
                  /\ DerivedInputs[i].description =
                         IF Len(strs) = 0 THEN param.default.description
                         ELSE strs[Len(strs)].s
                  /\ DerivedInputs[i].inferrable = is_inferrable_of(param.annotation)

C8_Witness ==
    /\ Returned("create_input_definition")
    /\ IsOk(last.res)
    /\ Len(last.arg.params) = MaxParams
    /\ DerivedInputs[1].name = "x"
    /\ DerivedInputs[MaxParams].name = "n1"

\* C9: in every materialized tool the input model has one field per
\* InputParameter, with the same name and description, and the output model has a
\* described result field exactly when the ToolOutput has a value_schema.
C9_ModelsMirrorDefinition ==
    \A k \in DOMAIN tools :
        LET fields == tools[k].input_model.fields
            inputs == tools[k].definition.inputs.parameters
        IN /\ Len(fields) = Len(inputs)
           /\ \A i \in 1..Len(fields) :
                  /\ fields[i].name = inputs[i].name
                  /\ fields[i].description = inputs[i].description
           /\ (\E j \in 1..Len(tools[k].output_model.fields) :
                   /\ tools[k].output_model.fields[j].name = "result"
                   /\ tools[k].output_model.fields[j].description # None)
              <=> tools[k].definition.output.value_schema.present

\* C10 as stated: the name is the override name when the callable carries one,
\* otherwise the snake-to-Pascal conversion of the declared name.
C10_Original ==
    (Returned("create_tool_definition") /\ IsOk(last.res)) =>
        last.res.val.name =
            IF last.arg.has_tool_name THEN last.arg.tool_name
            ELSE snake_to_pascal_case(last.arg.name)

\* C10 amended: the name is the snake-to-Pascal conversion of the override name
\* when the callable carries one, otherwise of the declared name.
C10_NameIsPascalOfToolName ==
    (Returned("create_tool_definition") /\ IsOk(last.res)) =>
        last.res.val.name =
            snake_to_pascal_case(IF last.arg.has_tool_name THEN last.arg.tool_name
                                 ELSE last.arg.name)

C10_Witness ==
    /\ Returned("create_tool_definition")
    /\ IsOk(last.res)
    /\ last.arg.has_tool_name
    /\ last.arg.name = <<"a", "_", "b">>
    /\ last.res.val.name = <<"A", "b">>

\* C11: two derivations in a row of a ToolDefinition from the same callable and
\* the same version give the same result, a default factory called by each of
\* them included.
C11_DerivationIsDeterministic ==
    [][(/\ Returned("create_tool_definition")
        /\ last'.op = "return"
        /\ last'.fn = "create_tool_definition"
        /\ last'.arg = last.arg
        /\ last'.with = last.with) => last'.res = last.res]_vars

\* C12: an add_tool call that raises, whatever the error and whatever calls came
\* before it, leaves the tools mapping exactly as it was.
C12_FailedAddLeavesCatalog ==
    [][(/\ adds' = adds + 1
        /\ last'.op = "return"
        /\ last'.fn = "add_tool"
        /\ ~IsOk(last'.res)) => tools' = tools]_vars

C12_Witness ==
    /\ Returned("add_tool")
    /\ adds = MaxAdds
    /\ last.res.err = "unsupported_type"
    /\ last.arg.params = <<>>
    /\ DOMAIN tools = {<<"A", "B">>}

\* the catalog and its lookups in one state
CatalogKeyedByName ==
    /\ \A k \in DOMAIN tools : tools[k].definition.name = k
    /\ adds = 0 => len(tools) = 0
    /\ \A name \in LookupNames :
           IF contains(tools, name)
           THEN /\ IsOk(getitem(tools, name))
                /\ get_tool(tools, name) = {Ok(getitem(tools, name).val.tool)}
           ELSE /\ getitem(tools, name) = Err("KeyError")
                /\ get_tool(tools, name) = {Err("ValueError")}
    /\ Returned("__contains__") => (last.res.val <=> last.arg \in DOMAIN tools)
    /\ Returned("__len__") => last.res.val = Cardinality(DOMAIN tools)
    /\ Returned("__getitem__") =>
           IF last.arg \in DOMAIN tools
           THEN IsOk(last.res) /\ last.res.val = tools[last.arg]
           ELSE last.res.err = "KeyError"
    /\ Returned("get_tool") =>
           IF last.arg \in DOMAIN tools
           THEN IsOk(last.res) /\ last.res.val = tools[last.arg].tool
           ELSE last.res.err = "ValueError"

\* one step of the catalog: an add_tool call that returns stores its callable
\* under the derived name, in place of an earlier entry of that name, and
\* touches no other entry; no other step changes the catalog
LastWriteWins ==
    IF adds' = adds + 1 /\ IsOk(last'.res)
    THEN LET name == snake_to_pascal_case(tool_name_of(last'.arg))
         IN /\ DOMAIN tools' = DOMAIN tools \cup {name}
            /\ tools'[name].tool = last'.arg
            /\ tools'[name].meta.toolkit = last'.with.name
            /\ \A m \in DOMAIN tools \ {name} : tools'[m] = tools[m]
            /\ len(tools') = len(tools) + (IF name \in DOMAIN tools THEN 0 ELSE 1)
            /\ get_tool(tools', name) = {Ok(last'.arg)}
    ELSE tools' = tools

\* C13: every entry is stored under its own derived name; an add_tool call that
\* returns replaces the entry of that name if there is one, so that the length of
\* the catalog counts the distinct names added; name in catalog, catalog[name]
\* and get_tool(name) agree and give the tool added last under that name, and
\* otherwise catalog[name] raises KeyError and get_tool(name) ValueError.
C13_KeyedByNameLastWriteWins ==
    []CatalogKeyedByName /\ [][LastWriteWins]_vars

C13_Witness ==
    /\ Returned("get_tool")
    /\ adds = MaxAdds
    /\ last.arg = <<"A", "B">>
    /\ IsOk(last.res)
    /\ last.res.val.has_tool_name
    /\ len(tools) = 1
    /\ tools[<<"A", "B">>].meta.toolkit = "kit"

====
